---- MODULE Spec2Model ----
(***************************************************************************)
(* A model of the media downloader bot of src/main.py: the handle cache    *)
(* (store_url / get_url), platform classification, the two message         *)
(* handlers (handle_url, handle_format_selection), the downloaders that    *)
(* download_media routes to, and the temporary workspaces on disk.         *)
(*                                                                         *)
(* Granularity.  python-telegram-bot dispatches one update at a time, and  *)
(* the download_* coroutines contain no await of their own, so a call of   *)
(* download_media runs to its return without another handler in between:   *)
(* it is one action.  handle_format_selection is cut at its awaits.        *)
(***************************************************************************)
EXTENDS Integers, Sequences, FiniteSets, TLC

VARIABLES
    url_cache,        \* bot.url_cache: insertion-ordered dict, a sequence of [token, url]
    nstores,          \* number of store_url calls so far (names the fresh token)
    keyboard,         \* what the last handle_url offered: [kind, platform, token]
    pc,               \* position of the running handle_format_selection, or "idle"
    req,              \* its locals: fmt, token, url, platform, filepath, error, bound
    reply,            \* the text last put in the status message
    log,              \* collaborator calls made by the running / last request
    dirs,             \* directories that exist under DOWNLOAD_DIR
    files,            \* files that exist: [dir, name, by, size]
    ntemp,            \* number of tempfile.mkdtemp calls so far
    dirname_pattern,  \* bot.insta_loader.dirname_pattern (shared loader configuration)
    nreq,             \* number of handle_format_selection runs started
    answers,          \* what the collaborators answered in the running / last request
    now,              \* the wall clock, in seconds
    admitted,         \* the times at which the handlers took up a request of the user
    message,          \* the first URL of the last message handle_url was given
    storing           \* the store_url call in progress: its position and its locals

vars == <<url_cache, nstores, keyboard, pc, req, reply, log, dirs, files, ntemp,
          dirname_pattern, nreq, answers, now, admitted, message, storing>>

-----------------------------------------------------------------------------
(* Bounds of the model *)

MaxHandles == 1
MaxStores == 152
MaxRequests == 1
MaxStrategies == 2
MaxIssued == 2
MaxClock == 61
PerMinute == 1

(* Program constants *)

CacheLimit == 100
CacheKeep == 50
MaxFileSizeMB == 50

MAX_FILE_SIZE == MaxFileSizeMB * 1024 * 1024

-----------------------------------------------------------------------------
(* URLs.  A URL is known to the code only through substring tests and two   *)
(* regular expressions, so a URL is the record of what those tests see:     *)
(*   host      the platform keys that occur in urlparse(url).netloc.lower() *)
(*             (after a leading "www." is dropped)                          *)
(*   rest      the platform keys that occur in the url outside the netloc   *)
(*   path      a serial that tells URLs of one site apart                   *)
(*   shortcode whether /p/<code> or /reel/<code> occurs in the url          *)
(*   malformed whether urlparse raises on it                                *)
(*   shorts    whether 'shorts/' occurs in the url                          *)

Url(id, host, rest, path, shortcode, malformed) ==
    [id |-> id, host |-> host, rest |-> rest, path |-> path,
     shortcode |-> shortcode, malformed |-> malformed, shorts |-> FALSE]

Shorts(url) == [url EXCEPT !.shorts = TRUE]

UrlNone == Url("None", {}, {}, 0, FALSE, FALSE)

Urls ==
    { Url("youtube", {"youtube.com"}, {}, 0, FALSE, FALSE),
      Shorts(Url("youtube_shorts", {"youtube.com"}, {}, 0, FALSE, FALSE)),
      Url("instagram_post", {"instagram.com"}, {}, 0, TRUE, FALSE),
      Url("instagram_profile", {"instagram.com"}, {}, 0, FALSE, FALSE),
      Url("twitter", {"twitter.com"}, {}, 0, FALSE, FALSE),
      Url("soundcloud", {"soundcloud.com"}, {}, 0, FALSE, FALSE),
      Url("twitter_share_youtube", {"twitter.com"}, {"youtube.com"}, 0, FALSE, FALSE),
      Url("example", {}, {}, 0, FALSE, FALSE),
      Url("bad_ipv6", {}, {"x.com"}, 0, FALSE, TRUE) }

Tweet(n) == Url("twitter", {"twitter.com"}, {}, n, FALSE, FALSE)

supported_platforms ==
    << [key |-> "youtube.com", name |-> "YouTube"],
       [key |-> "youtu.be", name |-> "YouTube"],
       [key |-> "twitter.com", name |-> "Twitter/X"],
       [key |-> "x.com", name |-> "Twitter/X"],
       [key |-> "instagram.com", name |-> "Instagram"],
       [key |-> "soundcloud.com", name |-> "SoundCloud"] >>

\* a test that would look for the platform anywhere in the text, without urlparse
is_supported_text(url) ==
    \E i \in 1..Len(supported_platforms) :
        supported_platforms[i].key \in (url.host \cup url.rest)

\* lines 86-100: urlparse, then any(platform in domain ...); False when urlparse raises
is_supported_url(url) ==
    IF url.malformed THEN FALSE
    ELSE \E i \in 1..Len(supported_platforms) : supported_platforms[i].key \in url.host

get_platform_name(url) ==
    IF url.malformed THEN "Unknown"
    ELSE LET hits == {i \in 1..Len(supported_platforms) :
                          supported_platforms[i].key \in url.host}
         IN  IF hits = {} THEN "Unknown"
             ELSE supported_platforms[CHOOSE i \in hits : \A j \in hits : i <= j].name

InUrl(key, url) == key \in (url.host \cup url.rest)

-----------------------------------------------------------------------------
(* The handle cache *)

Keys(cache) == {cache[i].token : i \in 1..Len(cache)}

\* an assignment that would keep the value of a key already present (setdefault)
DictSetDefault(cache, token, url) ==
    IF token \in Keys(cache) THEN cache
    ELSE Append(cache, [token |-> token, url |-> url])

\* self.url_cache[url_hash] = url: a new key goes last, a key already present
\* keeps its place and takes the new value
DictSet(cache, token, url) ==
    IF token \in Keys(cache)
    THEN [i \in 1..Len(cache) |->
             IF cache[i].token = token THEN [token |-> token, url |-> url] ELSE cache[i]]
    ELSE Append(cache, [token |-> token, url |-> url])

\* an eviction that would keep the 50 oldest entries, keys()[50:] deleted
EvictNewest(cache) ==
    IF Len(cache) > CacheLimit
    THEN SubSeq(cache, 1, CacheKeep)
    ELSE cache

\* an eviction that would keep one entry more than keys()[:-50] leaves
EvictWrongCount(cache) ==
    IF Len(cache) > CacheLimit
    THEN SubSeq(cache, Len(cache) - CacheKeep, Len(cache))
    ELSE cache

\* a cache that would never evict
EvictNever(cache) == cache

\* old_keys = list(self.url_cache.keys())[:-50]; del each: the last 50 stay
Evict(cache) ==
    IF Len(cache) > CacheLimit
    THEN SubSeq(cache, Len(cache) - CacheKeep + 1, Len(cache))
    ELSE cache

store_url(cache, token, url) == Evict(DictSet(cache, token, url))

\* a lookup that would answer some URL for a token it does not hold
GetAlways(cache, url_id) ==
    IF url_id \in Keys(cache)
    THEN cache[CHOOSE i \in 1..Len(cache) : cache[i].token = url_id].url
    ELSE Tweet(0)

\* return self.url_cache.get(url_id): None for a token the cache does not hold
get_url(cache, url_id) ==
    IF url_id \in Keys(cache)
    THEN cache[CHOOSE i \in 1..Len(cache) : cache[i].token = url_id].url
    ELSE UrlNone

-----------------------------------------------------------------------------
(* Values the handler and the downloaders pass around *)

Err(msg, words) == [msg |-> msg, words |-> words]
ErrNone == Err("None", {})

Exc(type, words) == [type |-> type, words |-> words]
ExcNone == Exc("None", {})

Path(dir, name, by) == [dir |-> dir, name |-> name, by |-> by]
PathNone == Path(0, "None", 0)

File(path, size) == [dir |-> path.dir, name |-> path.name, by |-> path.by, size |-> size]

PathOf(f) == Path(f.dir, f.name, f.by)

\* one collaborator call: op is "mkdtemp", "probe", "fetch", "transcode" or "upload";
\* filesize and approx are what a probe declared, size is what the call put on disk
\* (a fetch, a transcode) or sent (an upload)
Ev(op, by, i, ok, filesize, approx) ==
    [op |-> op, by |-> by, i |-> i, ok |-> ok, filesize |-> filesize, approx |-> approx,
     size |-> 0]

Fetch(by, i, ok, size) == [Ev("fetch", by, i, ok, 0, 0) EXCEPT !.size = IF ok THEN size ELSE 0]

\* os.path.exists / os.path.getsize on a file path
Exists(fs, path) == \E f \in fs : PathOf(f) = path

SizeOf(fs, path) == (CHOOSE f \in fs : PathOf(f) = path).size

\* the state a downloader reads and writes
Ctx(d, f, n, l, p) == [dirs |-> d, files |-> f, ntemp |-> n, log |-> l, pattern |-> p]

\* what a downloader returns (filepath, error), with the state it leaves; valid is
\* FALSE when the collaborators' answers drawn for the call cannot occur together;
\* raised is TRUE when the call does not return but lets an exception out to its caller
Result(ctx, filepath, error) ==
    [ctx |-> ctx, filepath |-> filepath, error |-> error, valid |-> TRUE, raised |-> FALSE]

Impossible(ctx) ==
    [ctx |-> ctx, filepath |-> PathNone, error |-> ErrNone, valid |-> FALSE, raised |-> FALSE]

\* an exception that no except clause of the download_* methods takes
Raised(ctx) ==
    [ctx |-> ctx, filepath |-> PathNone, error |-> ErrNone, valid |-> TRUE, raised |-> TRUE]

\* temp_dir = tempfile.mkdtemp(dir=DOWNLOAD_DIR)
Mkdtemp(ctx, by) ==
    [ctx EXCEPT !.ntemp = @ + 1,
                !.dirs = @ \cup {ctx.ntemp + 1},
                !.log = Append(@, Ev("mkdtemp", by, ctx.ntemp + 1, TRUE, 0, 0))]

Logged(ctx, ev) == [ctx EXCEPT !.log = Append(@, ev)]

Wrote(ctx, path, size) ==
    [ctx EXCEPT !.files = {f \in @ : PathOf(f) # path} \cup {File(path, size)}]

\* a removal that would take the whole directory of the file with it
RemovedTree(ctx, path) ==
    [ctx EXCEPT !.files = {f \in @ : f.dir # path.dir}, !.dirs = @ \ {path.dir}]

\* os.remove(path)
Removed(ctx, path) == [ctx EXCEPT !.files = {f \in @ : PathOf(f) # path}]

\* the sizes a collaborator may declare (0: none declared) and leave on disk
DeclaredSizes == {0, MAX_FILE_SIZE, MAX_FILE_SIZE + 1}
DiskSizes == {MAX_FILE_SIZE, MAX_FILE_SIZE + 1}

-----------------------------------------------------------------------------
(* download_youtube_with_pytubefix *)

\* the except clauses of lines 270-293
PytubeError(x) ==
    CASE x.type = "VideoUnavailable" -> Err("yt_unavailable", {"unavailable", "private"})
      [] x.type = "AgeRestrictedError" -> Err("age_restricted", {})
      [] x.type = "VideoPrivate" -> Err("yt_private", {"private"})
      [] x.type = "MembersOnly" -> Err("members_only", {})
      [] OTHER ->
           IF x.words \cap {"regex", "extract", "cipher"} # {}
           THEN Err("changed_their_system", {"changed their system"})
           ELSE IF x.words \cap {"unavailable", "not found"} # {}
           THEN Err("video_unavailable", {"unavailable", "private"})
           ELSE IF "private" \in x.words THEN Err("video_private", {"private"})
           ELSE IF x.words \cap {"sign in", "login"} # {} THEN Err("requires_login", {"login"})
           ELSE IF "restricted" \in x.words THEN Err("region_restricted", {"restricted"})
           ELSE Err("youtube_error", x.words)

\* What pytubefix and ffmpeg answer.
\*   ctor      the exception of YouTube(url), yt.title or yt.length (ExcNone: none)
\*   stream    whether yt.streams holds a stream of the wanted kind
\*   filesize  stream.filesize (0: absent)
\*   dl, size  the exception of stream.download, or the size of the file it wrote
\*   ffmpeg    "missing" (FileNotFoundError), "timeout" (TimeoutExpired), "failed"
\*             (returncode # 0) or "ok" (returncode 0)
\*   mp3       the size of the output ffmpeg left at the mp3 path (0: no file)
PyEnv(ctor, stream, filesize, dl, size, ffmpeg, mp3) ==
    [ctor |-> ctor, stream |-> stream, filesize |-> filesize, dl |-> dl, size |-> size,
     ffmpeg |-> ffmpeg, mp3 |-> mp3]

PyEnvDefault == PyEnv(ExcNone, "none", 0, ExcNone, 0, "missing", 0)

PyCtorExceptions ==
    {Exc(t, {}) : t \in {"VideoUnavailable", "AgeRestrictedError", "VideoPrivate", "MembersOnly"}}
    \cup {Exc("Exception", w) :
            w \in {{"extract"}, {"unavailable"}, {"private"}, {"login"}, {"restricted"}, {}}}

PyDownloadExceptions == {Exc("Exception", {}), Exc("Exception", {"extract"})}

PyEnvs ==
    {PyEnv(x, "none", 0, ExcNone, 0, "missing", 0) : x \in PyCtorExceptions}
    \cup {PyEnvDefault}
    \cup {PyEnv(ExcNone, "some", MAX_FILE_SIZE + 1, ExcNone, 0, "missing", 0)}
    \cup {PyEnv(ExcNone, "some", s, x, 0, "missing", 0) :
            s \in {0, MAX_FILE_SIZE}, x \in PyDownloadExceptions}
    \cup {PyEnv(ExcNone, "some", s, ExcNone, z, "missing", 0) :
            s \in {0, MAX_FILE_SIZE}, z \in DiskSizes}
    \cup {PyEnv(ExcNone, "some", s, ExcNone, z, m, y) :
            s \in {0, MAX_FILE_SIZE}, z \in DiskSizes, m \in {"failed", "timeout"},
            y \in {0, MAX_FILE_SIZE}}
    \cup {PyEnv(ExcNone, "some", s, ExcNone, z, "ok", y) :
            s \in {0, MAX_FILE_SIZE}, z \in DiskSizes, y \in {0} \cup DiskSizes}

\* if stream.filesize and stream.filesize > MAX_FILE_SIZE
PyTooLarge(filesize) == filesize # 0 /\ filesize > MAX_FILE_SIZE

\* a test that would take the return code alone for a conversion
TranscodeSucceededUnseen(ffmpeg, exists) == ffmpeg = "ok"

\* line 206: if result.returncode == 0 and os.path.exists(mp3_filepath)
TranscodeSucceeded(ffmpeg, exists) == ffmpeg = "ok" /\ exists

\* a method whose use of re would find the module imported at line 8
ReBoundAlways(url) == TRUE

\* line 150, import re inside "if 'shorts/' in url": the import makes re a local name
\* of the whole method, bound only when that branch ran; re.sub (lines 194, 258) raises
\* UnboundLocalError otherwise
ReBound(url) == url.shorts

download_youtube_with_pytubefix(ctx, url, fmt, e) ==
    LET c0 == Mkdtemp(ctx, "pytubefix")
        d == ctx.ntemp + 1
        orig == Path(d, IF fmt = "audio" THEN "audio.mp4" ELSE "video.mp4", 0)
        mp3 == Path(d, "audio.mp3", 0)
        failed == IF fmt = "audio" THEN "audio_download_failed" ELSE "video_download_failed"
    IN  IF e.ctor # ExcNone
        THEN Result(Logged(c0, Ev("probe", "pytubefix", 0, FALSE, 0, 0)), PathNone,
                    PytubeError(e.ctor))
        ELSE IF e.stream = "none"
        THEN Result(Logged(c0, Ev("probe", "pytubefix", 0, TRUE, 0, 0)), PathNone,
                    Err(IF fmt = "audio" THEN "no_audio_stream" ELSE "no_video_stream", {}))
        ELSE LET c1 == Logged(c0, Ev("probe", "pytubefix", 0, TRUE, e.filesize, 0))
             IN  IF PyTooLarge(e.filesize)
                 THEN Result(c1, PathNone, Err("too_large", {}))
                 ELSE IF ~ReBound(url)
                 THEN Result(c1, PathNone, Err(failed, {"local variable"}))
                 ELSE LET c2 == Logged(c1, Fetch("pytubefix", 0, e.dl = ExcNone, e.size))
                      IN  IF e.dl # ExcNone
                          THEN Result(c2, PathNone, Err(failed, e.dl.words))
                          ELSE LET c3 == Wrote(c2, orig, e.size)
                               IN  IF fmt = "audio"
                                   THEN LET c4 == Logged(c3, Ev("transcode", "ffmpeg", 0,
                                                                e.ffmpeg = "ok", 0, 0))
                                            c5 == IF e.ffmpeg # "missing" /\ e.mp3 # 0
                                                  THEN Wrote(c4, mp3, e.mp3) ELSE c4
                                        IN  IF TranscodeSucceeded(e.ffmpeg, Exists(c5.files, mp3))
                                            THEN Result(Removed(c5, orig), mp3, ErrNone)
                                            ELSE Result(c5, orig, ErrNone)
                                   ELSE Result(c3, orig, ErrNone)

-----------------------------------------------------------------------------
(* download_instagram_with_instaloader *)

IgEnv(post, is_video, get, size, ctype, ffmpeg, mp3) ==
    [post |-> post, is_video |-> is_video, get |-> get, size |-> size, ctype |-> ctype,
     ffmpeg |-> ffmpeg, mp3 |-> mp3]

IgEnvDefault == IgEnv(Exc("Exception", {}), FALSE, ExcNone, 0, "jpeg", "missing", 0)

IgPostExceptions ==
    {Exc(t, {}) : t \in {"PostChangedException", "PrivateProfileNotFollowedException",
                         "ProfileNotExistsException", "LoginRequiredException",
                         "RequestException", "Exception"}}

IgEnvs ==
    {IgEnv(x, FALSE, ExcNone, 0, "jpeg", "missing", 0) : x \in IgPostExceptions}
    \cup {IgEnv(ExcNone, v, Exc("RequestException", {}), 0, "jpeg", "missing", 0) :
            v \in BOOLEAN}
    \cup {IgEnv(ExcNone, TRUE, ExcNone, z, "mp4", m, 0) :
            z \in DiskSizes, m \in {"failed", "missing"}}
    \cup {IgEnv(ExcNone, TRUE, ExcNone, z, "mp4", "ok", y) : z \in DiskSizes, y \in DiskSizes}
    \cup {IgEnv(ExcNone, FALSE, ExcNone, z, c, "missing", 0) :
            z \in DiskSizes, c \in {"jpeg", "png", "webp"}}

\* the except clauses of lines 396-408
InstaError(x) ==
    CASE x.type = "PostChangedException" -> Err("ig_post_changed", {})
      [] x.type = "PrivateProfileNotFollowedException" -> Err("ig_private", {"private"})
      [] x.type = "ProfileNotExistsException" -> Err("ig_no_profile", {})
      [] x.type = "LoginRequiredException" -> Err("ig_login_required", {"login"})
      [] x.type = "RequestException" -> Err("network_error", x.words)
      [] OTHER -> Err("instagram_failed", x.words)

download_instagram_with_instaloader(ctx, url, fmt, e) ==
    LET c0 == [Mkdtemp(ctx, "instaloader") EXCEPT !.pattern = ctx.ntemp + 1]
        d == ctx.ntemp + 1
        video == Path(d, "instagram_video.mp4", 0)
        audio == Path(d, "instagram_audio.mp3", 0)
        image == Path(d, IF e.ctype = "png" THEN "instagram_image.png"
                         ELSE "instagram_image.jpg", 0)
    IN  IF ~url.shortcode THEN Result(c0, PathNone, Err("ig_invalid_url", {}))
        ELSE IF e.post # ExcNone
        THEN Result(Logged(c0, Ev("probe", "instaloader", 0, FALSE, 0, 0)), PathNone,
                    InstaError(e.post))
        ELSE LET c1 == Logged(c0, Ev("probe", "instaloader", 0, TRUE, 0, 0))
                 c2 == Logged(c1, Fetch("instaloader", 0, e.get = ExcNone, e.size))
             IN  IF e.is_video
                 THEN IF e.get # ExcNone THEN Result(c2, PathNone, InstaError(e.get))
                      ELSE LET c3 == Wrote(c2, video, e.size)
                           IN  IF e.size > MAX_FILE_SIZE
                               THEN Result(c3, PathNone, Err("too_large", {}))
                               ELSE IF fmt = "audio"
                               THEN LET c4 == Logged(c3, Ev("transcode", "ffmpeg", 0,
                                                            e.ffmpeg = "ok", 0, 0))
                                    IN  IF e.ffmpeg = "ok"
                                        THEN Result(Removed(Wrote(c4, audio, e.mp3), video),
                                                    audio, ErrNone)
                                        ELSE Result(c4, PathNone,
                                                    Err("audio_extraction_failed", {"extract"}))
                               ELSE Result(c3, video, ErrNone)
                 ELSE IF fmt = "audio" THEN Result(c1, PathNone, Err("ig_only_images", {}))
                      ELSE IF e.get # ExcNone THEN Result(c2, PathNone, InstaError(e.get))
                      ELSE LET c3 == Wrote(c2, image, e.size)
                           IN  IF e.size > MAX_FILE_SIZE
                               THEN Result(c3, PathNone, Err("too_large", {}))
                               ELSE Result(c3, image, ErrNone)

-----------------------------------------------------------------------------
(* download_with_ytdlp: the strategy list and the strategy loop *)

\* lines 436-474: one strategy is built whatever the url
Strategies(url, fmt) ==
    IF InUrl("twitter.com", url) \/ InUrl("x.com", url)
    THEN << [format |-> "best[height<=720]/best", postprocessors |-> FALSE] >>
    ELSE IF InUrl("soundcloud.com", url)
    THEN << [format |-> "bestaudio/best", postprocessors |-> (fmt = "audio")] >>
    ELSE << [format |-> fmt, postprocessors |-> FALSE] >>

\* any ordered strategy list of up to MaxStrategies configurations
AnyStrategies ==
    UNION {[1..n -> {[format |-> "best", postprocessors |-> FALSE]}] : n \in 1..MaxStrategies}

\* What yt-dlp answers under one strategy.
\*   probe    "ok", "fail" (extract_info raises kind) or "setup" (YoutubeDL(strategy)
\*            itself raises kind, outside the two inner try blocks)
\*   filesize, approx   info['filesize'], info['filesize_approx'] (0: absent)
\*   fetch    "file", "nofile" (download returns, nothing written) or "raise" (kind)
\*   partial  whether a failed transfer leaves a partial file
\*   pick     which file os.listdir(temp_dir) lists first: 0 this strategy's own,
\*            j > 0 the one an earlier strategy j left
Outcome(probe, kind, filesize, approx, fetch, partial, size, pick) ==
    [probe |-> probe, kind |-> kind, filesize |-> filesize, approx |-> approx,
     fetch |-> fetch, partial |-> partial, size |-> size, pick |-> pick]

OutcomeDefault == Outcome("fail", "private", 0, 0, "raise", FALSE, 0, 0)

TerminalKinds == {"age_restricted", "private", "not_found"}
RetryableKinds == {"bot_detected"}
UnclassifiedKinds == {"unclassified"}
ErrorKinds == TerminalKinds \cup RetryableKinds \cup UnclassifiedKinds

AcceptedPairs == {<<0, 0>>, <<MAX_FILE_SIZE, 0>>, <<MAX_FILE_SIZE, MAX_FILE_SIZE + 1>>}
RejectedPairs == {<<MAX_FILE_SIZE + 1, 0>>, <<0, MAX_FILE_SIZE + 1>>}

Outcomes(i) ==
    {Outcome("fail", k, 0, 0, "raise", FALSE, 0, 0) : k \in ErrorKinds}
    \cup {Outcome("setup", "bot_detected", 0, 0, "raise", FALSE, 0, 0)}
    \cup {Outcome("ok", "private", p[1], p[2], "raise", FALSE, 0, 0) : p \in RejectedPairs}
    \cup {Outcome("ok", k, p[1], p[2], "raise", b, MAX_FILE_SIZE, 0) :
            k \in RetryableKinds \cup UnclassifiedKinds, p \in AcceptedPairs, b \in BOOLEAN}
    \cup {Outcome("ok", "private", p[1], p[2], "nofile", FALSE, 0, j) :
            p \in AcceptedPairs, j \in 0..(i - 1)}
    \cup {Outcome("ok", "private", p[1], p[2], "file", FALSE, z, j) :
            p \in AcceptedPairs, z \in DiskSizes, j \in 0..(i - 1)}

\* a size test that would ignore the estimate filesize_approx
YtTooLargeExactOnly(filesize, approx) == filesize # 0 /\ filesize > MAX_FILE_SIZE

\* filesize = info.get('filesize') or info.get('filesize_approx', 0)
\* if filesize and filesize > MAX_FILE_SIZE
YtTooLarge(filesize, approx) ==
    LET declared == IF filesize # 0 THEN filesize ELSE approx
    IN  declared # 0 /\ declared > MAX_FILE_SIZE

\* a loop that would fall off its end without a result
AllFailedNothing(ctx, last_error) == Result(ctx, PathNone, ErrNone)

\* a final message that would drop the last error
AllFailedUnknown(ctx, last_error) ==
    Result(ctx, PathNone, Err("all_strategies_failed", {"Unknown"}))

\* line 538, after the loop
AllFailed(ctx, last_error) ==
    Result(ctx, PathNone,
           Err("all_strategies_failed",
               IF last_error = "None" THEN {"Unknown"} ELSE {last_error}))

\* a loop that would give up at the first failed probe
ProbeFailedStops(i, n) == FALSE

\* lines 495-497: after a failed probe of strategy i out of n, whether the loop
\* goes on to strategy i + 1
ProbeFailedContinues(i, n) == i < n

\* a loop that would give up at the first transfer that raises
TransferFailedStops(i, n) == FALSE

\* lines 526-528: after a transfer of strategy i out of n raised, whether the loop
\* goes on to strategy i + 1
TransferFailedContinues(i, n) == i < n

\* a loop that would walk its list from the last strategy to the first
RankReversed(i, n) == n + 1 - i

\* line 478, for i, strategy in enumerate(strategies): the strategy of the i-th pass
Rank(i, n) == i

RECURSIVE StrategyLoop(_, _, _, _, _, _)
StrategyLoop(i, n, d, ctx, last_error, env) ==
    IF i > n THEN AllFailed(ctx, last_error)
    ELSE
    LET s == Rank(i, n)
        o == env[s]
        own == Path(d, "media", s)
        part == Path(d, "media.part", s)
    IN  IF o.probe = "setup"
        THEN \* lines 530-535
             IF i < n THEN StrategyLoop(i + 1, n, d, ctx, o.kind, env)
             ELSE AllFailed(ctx, o.kind)
        ELSE IF o.probe = "fail"
        THEN LET c1 == Logged(ctx, Ev("probe", "ytdlp", s, FALSE, 0, 0))
             IN  IF ProbeFailedContinues(i, n)
                 THEN StrategyLoop(i + 1, n, d, c1, last_error, env)
                 ELSE Result(c1, PathNone, Err("error_accessing", {o.kind}))
        ELSE
        LET c1 == Logged(ctx, Ev("probe", "ytdlp", s, TRUE, o.filesize, o.approx))
        IN  IF YtTooLarge(o.filesize, o.approx)
            THEN Result(c1, PathNone, Err("too_large", {}))
            ELSE
            LET c2 == Logged(c1, Fetch("ytdlp", s, o.fetch # "raise", o.size))
            IN  IF o.fetch = "raise"
                THEN \* lines 522-528
                     LET c3 == IF o.partial THEN Wrote(c2, part, o.size) ELSE c2
                     IN  IF TransferFailedContinues(i, n)
                         THEN StrategyLoop(i + 1, n, d, c3, o.kind, env)
                         ELSE Result(c3, PathNone, Err("download_failed", {o.kind}))
                ELSE
                LET c3 == IF o.fetch = "file" THEN Wrote(c2, own, o.size) ELSE c2
                    listing == {f \in c3.files : f.dir = d}
                    first == IF o.pick = 0 THEN {f \in listing : f.by = s}
                             ELSE {f \in listing : f.by = o.pick}
                IN  IF listing = {}
                    THEN IF i < n THEN StrategyLoop(i + 1, n, d, c3, last_error, env)
                         ELSE Result(c3, PathNone, Err("no_file_created", {}))
                    ELSE IF first = {} THEN Impossible(c3)
                    ELSE Result(c3, PathOf(CHOOSE f \in first : TRUE), ErrNone)

download_with_ytdlp(ctx, strategies, env) ==
    LET c0 == Mkdtemp(ctx, "ytdlp")
    IN  StrategyLoop(1, Len(strategies), ctx.ntemp + 1, c0, "None", env)

-----------------------------------------------------------------------------
(* download_youtube_with_ytdlp_fallback *)

download_youtube_with_ytdlp_fallback(ctx, fmt, o) ==
    LET c0 == Mkdtemp(ctx, "fallback")
        d == ctx.ntemp + 1
        own == Path(d, "media", 1)
    IN  IF o.probe = "setup" THEN Result(c0, PathNone, Err("fallback_failed", {o.kind}))
        ELSE IF o.probe = "fail"
        THEN Result(Logged(c0, Ev("probe", "fallback", 1, FALSE, 0, 0)), PathNone,
                    Err("both_failed", {"unavailable"}))
        ELSE
        LET c1 == Logged(c0, Ev("probe", "fallback", 1, TRUE, o.filesize, o.approx))
        IN  IF YtTooLarge(o.filesize, o.approx)
            THEN Result(c1, PathNone, Err("too_large", {}))
            ELSE
            LET c2 == Logged(c1, Fetch("fallback", 1, o.fetch # "raise", o.size))
            IN  IF o.fetch = "raise"
                THEN Result(IF o.partial THEN Wrote(c2, Path(d, "media.part", 1), o.size)
                            ELSE c2,
                            PathNone, Err("both_failed", {"unavailable"}))
                ELSE IF o.fetch = "file" THEN Result(Wrote(c2, own, o.size), own, ErrNone)
                ELSE Result(c2, PathNone, Err("fallback_no_file", {}))

-----------------------------------------------------------------------------
(* download_media *)

\* if error and ("changed their system" in error or "cipher" in error or "extract" in error)
\* a chain that would try the fallback after every failure of the primary method
FallbackAlways(error) == error # ErrNone

FallbackWanted(error) ==
    error # ErrNone /\ error.words \cap {"changed their system", "cipher", "extract"} # {}

error_of_pytubefix(url, fmt, py) ==
    download_youtube_with_pytubefix(Ctx({}, {}, 0, <<>>, 0), url, fmt, py).error

\* disk is what tempfile.mkdtemp answers: "ok", "full" (the first mkdtemp of the call
\* raises OSError) or "full_later" (the first succeeds, a second one raises)
Env(py, fb, ig, strategies, yd) ==
    [py |-> py, fb |-> fb, ig |-> ig, strategies |-> strategies, yd |-> yd, disk |-> "ok"]

DiskFull(env, when) == [env EXCEPT !.disk = when]

\* tempfile.mkdtemp is the first statement of every download_* method, before its try
\* (lines 141, 297, 416, 573): the OSError it raises leaves the method and download_media
download_media(ctx, url, fmt, env) ==
    IF env.disk = "full" THEN Raised(ctx)
    ELSE IF InUrl("youtube.com", url) \/ InUrl("youtu.be", url)
    THEN LET r == download_youtube_with_pytubefix(ctx, url, fmt, env.py)
         IN  IF FallbackWanted(r.error)
             THEN IF env.disk = "full_later" THEN Raised(r.ctx)
                  ELSE download_youtube_with_ytdlp_fallback(r.ctx, fmt, env.fb)
             ELSE r
    ELSE IF InUrl("instagram.com", url)
    THEN download_instagram_with_instaloader(ctx, url, fmt, env.ig)
    ELSE download_with_ytdlp(ctx, env.strategies, env.yd)

\* every way the collaborators can answer one call of download_media; lists is the
\* set of strategy lists the loop may be given
RECURSIVE OutcomeLists(_)
OutcomeLists(n) ==
    IF n = 0 THEN {<<>>}
    ELSE {Append(yd, o) : yd \in OutcomeLists(n - 1), o \in Outcomes(n)}

FallbackOutcomes(url, fmt, py) ==
    IF error_of_pytubefix(url, fmt, py) # ErrNone
       /\ error_of_pytubefix(url, fmt, py).words \cap {"changed their system", "cipher", "extract"} # {}
    THEN Outcomes(1)
    ELSE {OutcomeDefault}

DiskEnvs(url, fmt) ==
    {DiskFull(Env(PyEnvDefault, OutcomeDefault, IgEnvDefault, <<>>, <<>>), "full")}
    \cup (IF InUrl("youtube.com", url) \/ InUrl("youtu.be", url)
          THEN {DiskFull(Env(py, OutcomeDefault, IgEnvDefault, <<>>, <<>>), "full_later") :
                  py \in {p \in PyEnvs : FallbackOutcomes(url, fmt, p) # {OutcomeDefault}}}
          ELSE {})

Envs(url, fmt, lists) ==
    DiskEnvs(url, fmt)
    \cup
    IF InUrl("youtube.com", url) \/ InUrl("youtu.be", url)
    THEN UNION {{Env(py, fb, IgEnvDefault, <<>>, <<>>) : fb \in FallbackOutcomes(url, fmt, py)} :
                   py \in PyEnvs}
    ELSE IF InUrl("instagram.com", url)
    THEN {Env(PyEnvDefault, OutcomeDefault, ig, <<>>, <<>>) : ig \in IgEnvs}
    ELSE UNION {{Env(PyEnvDefault, OutcomeDefault, IgEnvDefault, s, yd) :
                    yd \in OutcomeLists(Len(s))} : s \in lists}

-----------------------------------------------------------------------------
(* The handlers *)

Req(fmt, token, url, platform, filepath, error, bound) ==
    [fmt |-> fmt, token |-> token, url |-> url, platform |-> platform,
     filepath |-> filepath, error |-> error, bound |-> bound]

ReqNone == Req("None", 0, UrlNone, "None", PathNone, ErrNone, FALSE)

EnvNone == Env(PyEnvDefault, OutcomeDefault, IgEnvDefault, <<>>, <<>>)

KeyboardNone == [kind |-> "None", platform |-> "None", token |-> 0]

\* the locals of a store_url call: at is "none" (no call in progress), "inserted"
\* (line 109 done) or "evicting" (inside the loop of lines 114-115); old_keys are the
\* keys the loop has still to delete, before is the cache the call found
Storing(at, token, url, old_keys, before) ==
    [at |-> at, token |-> token, url |-> url, old_keys |-> old_keys, before |-> before]

StoringNone == Storing("none", 0, UrlNone, <<>>, <<>>)

Init ==
    /\ url_cache = <<>>
    /\ nstores = 0
    /\ keyboard = KeyboardNone
    /\ pc = "idle"
    /\ req = ReqNone
    /\ reply = "None"
    /\ log = <<>>
    /\ dirs = {}
    /\ files = {}
    /\ ntemp = 0
    /\ dirname_pattern = 0
    /\ nreq = 0
    /\ answers = EnvNone
    /\ now = 0
    /\ admitted = <<>>
    /\ message = UrlNone
    /\ storing = StoringNone

\* lines 709-742: the format keyboard offered for a url
KeyboardFor(url) ==
    IF InUrl("soundcloud.com", url) THEN "audio_only"
    ELSE IF InUrl("youtube.com", url) \/ InUrl("youtu.be", url) THEN "youtube"
    ELSE IF InUrl("instagram.com", url) THEN "instagram"
    ELSE "standard"

\* a scheduler that would let a handler in while store_url is between two statements
LoopFreeAnytime(s) == TRUE

\* lines 102-117: store_url is a plain def without an await, called from the coroutine
\* handle_url (line 707) on the one thread of the event loop: no other handler is
\* started or resumed before the call has returned
LoopFree(s) == s.at = "none"

\* handle_url on a message whose first URL is msg (UrlNone: the text holds no URL);
\* token is what the md5 digest of (url, user_id, time.time()) truncates to: a value
\* never issued before (nstores + 1) or one issued before
\* a handler that would return only for a message without a URL
RefusedWithoutUrlOnly(msg) == msg = UrlNone

\* the two silent returns of handle_url: no URL in the text, or is_supported_url false
Refused(msg) == msg = UrlNone \/ ~is_supported_url(msg)

HandleUrl(urls, tokens, limit) ==
    /\ pc = "idle"
    /\ LoopFree(storing)
    /\ nstores < limit
    /\ \E msg \in urls \cup {UrlNone}, token \in tokens :
         IF Refused(msg)
         THEN /\ message' = msg
              /\ UNCHANGED <<url_cache, nstores, keyboard, pc, req, reply, log, dirs, files,
                             ntemp, dirname_pattern, nreq, answers, now, admitted, storing>>
         ELSE /\ message' = msg
              /\ url_cache' = store_url(url_cache, token, msg)
              /\ nstores' = nstores + 1
              /\ keyboard' = [kind |-> KeyboardFor(msg), platform |-> get_platform_name(msg),
                              token |-> token]
              /\ reply' = "detected"
              /\ req' = ReqNone
              /\ log' = <<>>
              /\ answers' = EnvNone
              /\ admitted' = Append(admitted, now)
              /\ UNCHANGED <<pc, dirs, files, ntemp, dirname_pattern, nreq, now, storing>>

\* The same handler statement by statement.  StoreInsert is handle_url up to line 109
\* of store_url, for a message whose URL is supported.
StoreInsert(urls, tokens, limit) ==
    /\ pc = "idle"
    /\ LoopFree(storing)
    /\ nstores < limit
    /\ \E msg \in {u \in urls : ~Refused(u)}, token \in tokens :
         /\ message' = msg
         /\ url_cache' = DictSet(url_cache, token, msg)
         /\ storing' = Storing("inserted", token, msg, <<>>, url_cache)
    /\ UNCHANGED <<nstores, keyboard, pc, req, reply, log, dirs, files, ntemp,
                   dirname_pattern, nreq, answers, now, admitted>>

\* list(self.url_cache.keys())[:-50]
OldKeys(cache) == [i \in 1..(Len(cache) - CacheKeep) |-> cache[i].token]

\* lines 112-113: if len(self.url_cache) > 100: old_keys = ...
StoreOldKeys ==
    /\ storing.at = "inserted"
    /\ storing' = [storing EXCEPT !.at = "evicting",
                                  !.old_keys = IF Len(url_cache) > CacheLimit
                                               THEN OldKeys(url_cache) ELSE <<>>]
    /\ UNCHANGED <<url_cache, nstores, keyboard, pc, req, reply, log, dirs, files, ntemp,
                   dirname_pattern, nreq, answers, now, admitted, message>>

\* del self.url_cache[key]
DictDel(cache, key) == SelectSeq(cache, LAMBDA e : e.token # key)

\* lines 114-115: one pass of for key in old_keys: del self.url_cache[key]
StoreDelete ==
    /\ storing.at = "evicting"
    /\ storing.old_keys # <<>>
    /\ url_cache' = DictDel(url_cache, Head(storing.old_keys))
    /\ storing' = [storing EXCEPT !.old_keys = Tail(@)]
    /\ UNCHANGED <<nstores, keyboard, pc, req, reply, log, dirs, files, ntemp,
                   dirname_pattern, nreq, answers, now, admitted, message>>

\* line 117, return url_hash, and the rest of handle_url (lines 709-749)
StoreReturn ==
    /\ storing.at = "evicting"
    /\ storing.old_keys = <<>>
    /\ storing' = StoringNone
    /\ nstores' = nstores + 1
    /\ keyboard' = [kind |-> KeyboardFor(storing.url),
                    platform |-> get_platform_name(storing.url), token |-> storing.token]
    /\ reply' = "detected"
    /\ req' = ReqNone
    /\ log' = <<>>
    /\ answers' = EnvNone
    /\ admitted' = Append(admitted, now)
    /\ UNCHANGED <<url_cache, pc, dirs, files, ntemp, dirname_pattern, nreq, now, message>>

\* handle_format_selection up to the await of download_media (lines 751-785); its
\* edit_message_text replaces the message that carried the keyboard
FormatSelection(tokens) ==
    /\ pc = "idle"
    /\ LoopFree(storing)
    /\ nreq < MaxRequests
    /\ nreq' = nreq + 1
    /\ admitted' = Append(admitted, now)
    /\ log' = <<>>
    /\ answers' = EnvNone
    /\ \E valid \in BOOLEAN, fmt \in {"audio", "video"}, token \in tokens :
         IF ~valid
         THEN /\ reply' = "invalid_selection"
              /\ req' = ReqNone
              /\ pc' = "idle"
         ELSE LET url == get_url(url_cache, token)
              IN  IF url = UrlNone
                  THEN /\ reply' = "session_expired"
                       /\ req' = Req(fmt, token, UrlNone, "None", PathNone, ErrNone, FALSE)
                       /\ pc' = "idle"
                  ELSE /\ reply' = "downloading"
                       /\ req' = Req(fmt, token, url, get_platform_name(url), PathNone,
                                     ErrNone, FALSE)
                       /\ pc' = "download"
    /\ keyboard' = KeyboardNone
    /\ UNCHANGED <<url_cache, nstores, dirs, files, ntemp, dirname_pattern, now, message, storing>>

\* filepath, error = await bot.download_media(url, format_type) (line 785), with the
\* collaborators answering one of the ways in lists; when the call raises, filepath and
\* error stay unbound
Returns(lists) ==
    /\ \E e \in Envs(req.url, req.fmt, lists) :
         LET r == download_media(Ctx(dirs, files, ntemp, log, dirname_pattern),
                                 req.url, req.fmt, e)
         IN  /\ r.valid
             /\ answers' = e
             /\ dirs' = r.ctx.dirs
             /\ files' = r.ctx.files
             /\ ntemp' = r.ctx.ntemp
             /\ log' = r.ctx.log
             /\ dirname_pattern' = r.ctx.pattern
             /\ req' = [req EXCEPT !.filepath = r.filepath, !.error = r.error,
                                   !.bound = ~r.raised]
    /\ pc' = "downloaded"
    /\ UNCHANGED <<url_cache, nstores, keyboard, reply, nreq, now, admitted, message, storing>>

DownloadMedia(lists) ==
    /\ pc = "download"
    /\ Returns(lists)

\* The same call at the grain of the event loop.  download_media and the download_*
\* coroutines it awaits contain no await that yields: YouTube(...), extract_info,
\* ydl.download, stream.download and download_post are called synchronously, with no
\* deadline, on the thread of the event loop.  BeginCall enters the call; EndCall is
\* the collaborators returning, after which the effects of the call are visible.
BeginCall ==
    /\ pc = "download"
    /\ pc' = "blocked"
    /\ UNCHANGED <<url_cache, nstores, keyboard, req, reply, log, dirs, files, ntemp,
                   dirname_pattern, nreq, answers, now, admitted, message, storing>>

EndCall(lists) ==
    /\ pc = "blocked"
    /\ Returns(lists)

\* a handler that would skip the size test on the downloaded file
HandlerTooLargeUnchecked(size) == FALSE

\* a handler that would refuse a file of exactly the ceiling
HandlerTooLargeInclusive(size) == size >= MAX_FILE_SIZE

\* if file_size > MAX_FILE_SIZE (line 829)
HandlerTooLarge(size) == size > MAX_FILE_SIZE

\* lines 787-840: what the handler does with the result, up to its next await; lines
\* 881-883 when the call raised
CheckResult ==
    /\ pc = "downloaded"
    /\ IF ~req.bound
       THEN reply' = "an_error_occurred" /\ pc' = "finally"
       ELSE IF req.error # ErrNone
       THEN reply' = req.error.msg /\ pc' = "finally"
       ELSE IF req.filepath = PathNone \/ ~Exists(files, req.filepath)
       THEN reply' = "file_not_found" /\ pc' = "finally"
       ELSE IF HandlerTooLarge(SizeOf(files, req.filepath))
       THEN reply' = "too_large" /\ pc' = "finally"
       ELSE reply' = "uploading" /\ pc' = "upload"
    /\ answers' = EnvNone
    /\ UNCHANGED <<url_cache, nstores, keyboard, req, log, dirs, files, ntemp,
                   dirname_pattern, nreq, now, admitted, message, storing>>

\* lines 850-871: which send_* the file goes to
SendMethod(r) ==
    IF r.fmt = "audio" THEN "send_audio"
    ELSE IF r.platform = "Instagram"
            /\ r.filepath.name \in {"instagram_image.jpg", "instagram_image.png"}
    THEN "send_photo"
    ELSE "send_video"

\* a handler that would start the download again when the upload raises
AfterUploadRetry(ok) == IF ok THEN "finally" ELSE "download"

\* lines 850-885: where the handler goes after the send_* call returned or raised: to
\* the last edit_message_text or to the except clause, and then to the finally block
AfterUpload(ok) == "finally"

\* lines 850-883: the upload, which succeeds or raises
Upload ==
    /\ pc = "upload"
    /\ \E ok \in BOOLEAN :
         /\ log' = Append(log, [Ev("upload", SendMethod(req), 0, ok, 0, 0)
                                    EXCEPT !.size = SizeOf(files, req.filepath)])
         /\ reply' = IF ok THEN "success" ELSE "an_error_occurred"
         /\ pc' = AfterUpload(ok)
    /\ UNCHANGED <<url_cache, nstores, keyboard, req, dirs, files, ntemp,
                   dirname_pattern, nreq, answers, now, admitted, message, storing>>

\* a cleanup that would remove without looking whether the file is there, outside
\* any try: os.remove raises on a file that is gone
release_unguarded(fs, ds, filepath, bound) ==
    IF bound /\ filepath # PathNone
    THEN IF Exists(fs, filepath)
         THEN [files |-> {f \in fs : f.dir # filepath.dir}, dirs |-> ds \ {filepath.dir},
               raised |-> FALSE]
         ELSE [files |-> fs, dirs |-> ds, raised |-> TRUE]
    ELSE [files |-> fs, dirs |-> ds, raised |-> FALSE]

\* a cleanup that would remove the file and leave its directory
release_file_only(fs, ds, filepath, bound) ==
    IF bound /\ filepath # PathNone /\ Exists(fs, filepath)
    THEN [files |-> {f \in fs : PathOf(f) # filepath}, dirs |-> ds, raised |-> FALSE]
    ELSE [files |-> fs, dirs |-> ds, raised |-> FALSE]

\* lines 885-900, the body of the finally block on the disk (fs, ds): inside
\* try / except Exception, if 'filepath' in locals() and filepath and
\* os.path.exists(filepath): os.remove(filepath), shutil.rmtree(dirname, ignore_errors)
release(fs, ds, filepath, bound) ==
    IF bound /\ filepath # PathNone /\ Exists(fs, filepath)
    THEN [files |-> {f \in fs : f.dir # filepath.dir}, dirs |-> ds \ {filepath.dir},
          raised |-> FALSE]
    ELSE [files |-> fs, dirs |-> ds, raised |-> FALSE]

\* lines 885-900: the finally block, after which the handler has returned
Finally ==
    /\ pc = "finally"
    /\ LET r == release(files, dirs, req.filepath, req.bound)
       IN  /\ ~r.raised
           /\ files' = r.files
           /\ dirs' = r.dirs
    /\ pc' = "idle"
    /\ UNCHANGED <<url_cache, nstores, keyboard, req, reply, log, ntemp,
                   dirname_pattern, nreq, answers, now, admitted, message, storing>>

\* time passes between two handler runs, half a minute or a little more at a time
Tick ==
    /\ pc = "idle"
    /\ \E d \in {30, 31} :
         /\ now + d <= MaxClock
         /\ now' = now + d
    /\ UNCHANGED <<url_cache, nstores, keyboard, pc, req, reply, log, dirs, files, ntemp,
                   dirname_pattern, nreq, answers, admitted, message, storing>>

-----------------------------------------------------------------------------
(* Specifications *)

\* the program: any message, any callback, the strategy lists the code builds
Next ==
    \/ HandleUrl(Urls, 1..(nstores + 1), MaxHandles)
    \/ FormatSelection(0..(nstores + 1))
    \/ DownloadMedia({Strategies(req.url, req.fmt)})
    \/ CheckResult
    \/ Upload
    \/ Finally

Spec == Init /\ [][Next]_vars

\* the strategy loop on any strategy list: as Spec, with download_with_ytdlp given
\* every ordered list of up to MaxStrategies strategies instead of the one it builds
NextLoop ==
    \/ HandleUrl(Urls, 1..(nstores + 1), MaxHandles)
    \/ FormatSelection(0..(nstores + 1))
    \/ DownloadMedia(AnyStrategies)
    \/ CheckResult
    \/ Upload
    \/ Finally

SpecLoop == Init /\ [][NextLoop]_vars

\* the handle cache at its capacity: up to MaxStores messages, the n-th carrying the
\* n-th distinct URL and given a token never issued before; callbacks carry the first
\* token ever issued, the oldest and the newest one retained, the one issued just
\* before the oldest retained, or one never issued
CacheProbes ==
    {1, nstores + 1}
    \cup (IF url_cache = <<>> THEN {}
          ELSE {url_cache[1].token, url_cache[Len(url_cache)].token,
                IF url_cache[1].token > 1 THEN url_cache[1].token - 1 ELSE 1})

NextCache ==
    \/ HandleUrl({Tweet(nstores + 1)}, {nstores + 1}, MaxStores)
    \/ FormatSelection(CacheProbes)
    \/ DownloadMedia({Strategies(req.url, req.fmt)})
    \/ CheckResult
    \/ Upload
    \/ Finally

SpecCache == Init /\ [][NextCache]_vars

\* the program over several messages: as Spec, with up to MaxIssued handles stored for
\* two URLs of different platforms, so that the 8 hex digits store_url keeps of its
\* md5 digest can repeat a retained token
TokenUrls == {u \in Urls : u.id \in {"twitter", "soundcloud"}}

NextTokens ==
    \/ HandleUrl(TokenUrls, 1..(nstores + 1), MaxIssued)
    \/ FormatSelection(0..(nstores + 1))
    \/ DownloadMedia({Strategies(req.url, req.fmt)})
    \/ CheckResult
    \/ Upload
    \/ Finally

SpecTokens == Init /\ [][NextTokens]_vars

\* the program under a clock: as Spec, with time passing between the handler runs
NextClock ==
    \/ Tick
    \/ HandleUrl(TokenUrls, {nstores + 1}, MaxHandles)
    \/ FormatSelection({nstores})
    \/ DownloadMedia({Strategies(req.url, req.fmt)})
    \/ CheckResult
    \/ Upload
    \/ Finally

SpecClock == Init /\ [][NextClock]_vars

\* the program at the grain of the event loop.  The handler's own steps are taken
\* whenever they can be; nothing in the code makes a collaborator's call return
\* (EndCall) and no user has to send anything.
NextBlocking ==
    \/ HandleUrl(TokenUrls, {nstores + 1}, MaxHandles)
    \/ FormatSelection({nstores})
    \/ BeginCall
    \/ EndCall({Strategies(req.url, req.fmt)})
    \/ CheckResult
    \/ Upload
    \/ Finally

SpecBlocking ==
    /\ Init
    /\ [][NextBlocking]_vars
    /\ WF_vars(BeginCall)
    /\ WF_vars(CheckResult)
    /\ WF_vars(Upload)
    /\ WF_vars(Finally)

\* the handle cache statement by statement: as SpecCache, with store_url taken one
\* statement at a time
NextStore ==
    \/ StoreInsert({Tweet(nstores + 1)}, {nstores + 1}, MaxStores)
    \/ StoreOldKeys
    \/ StoreDelete
    \/ StoreReturn
    \/ FormatSelection(CacheProbes)
    \/ DownloadMedia({Strategies(req.url, req.fmt)})
    \/ CheckResult
    \/ Upload
    \/ Finally

SpecStore == Init /\ [][NextStore]_vars

-----------------------------------------------------------------------------
(* Properties *)

\* the workspaces the running / last request created
RequestDirs == {log[j].i : j \in {k \in 1..Len(log) : log[k].op = "mkdtemp"}}

\* the size a probe declared, the exact one, or else the estimate
Declared(ev) == IF ev.filesize # 0 THEN ev.filesize ELSE ev.approx

ViaStrategyLoop == pc = "downloaded" /\ answers.strategies # <<>>

\* C1: once handle_format_selection has returned, every workspace its download
\* created is gone, directory and contents, whatever the outcome of the request.
C1_EveryWorkspaceDeleted ==
    pc = "idle" =>
        \A d \in RequestDirs : d \notin dirs /\ ~\E f \in files : f.dir = d

C3_FirstSuccessEndsLoop ==
    ViaStrategyLoop =>
        /\ \A n \in 1..Len(answers.yd) :
             (/\ \A k \in 1..(n - 1) : /\ answers.yd[k].probe = "fail"
                                      /\ answers.yd[k].kind \in RetryableKinds
              /\ answers.yd[n].probe = "ok"
              /\ ~(Declared(answers.yd[n]) > MAX_FILE_SIZE)
              /\ answers.yd[n].fetch = "file")
             => /\ req.error = ErrNone
                /\ req.filepath = Path(ntemp, "media", n)
                /\ Exists(files, req.filepath)
                /\ \A j \in 1..Len(log) : log[j].i <= n \/ log[j].op = "mkdtemp"
                /\ \E j \in 1..Len(log) : log[j].op = "fetch" /\ log[j].i = n
        /\ \A j \in 1..Len(log) :
             (log[j].op = "fetch" /\ answers.yd[log[j].i].fetch = "file")
             => j = Len(log) /\ req.error = ErrNone

C3_SecondStrategySucceeded ==
    /\ ViaStrategyLoop
    /\ Len(answers.yd) = 2
    /\ answers.yd[1].probe = "fail" /\ answers.yd[1].kind \in RetryableKinds
    /\ answers.yd[2].probe = "ok" /\ answers.yd[2].fetch = "file"
    /\ req.filepath = Path(ntemp, "media", 2)
    /\ req.error = ErrNone

\* C4: once a probe has declared a size above MAX_FILE_SIZE, the downloader that
\* made the probe starts no transfer at all, nothing is probed, fetched or uploaded
\* afterwards, and the request ends with the size-exceeded failure.
C4_DeclaredOversizeStartsNoTransfer ==
    \A j \in 1..Len(log) :
        (log[j].op = "probe" /\ Declared(log[j]) > MAX_FILE_SIZE)
        => /\ j = Len(log)
           /\ ~\E k \in 1..Len(log) : log[k].op = "fetch" /\ log[k].by = log[j].by
           /\ pc # "download" /\ pc # "upload"
           /\ pc = "downloaded" => (req.error = Err("too_large", {}) /\ req.filepath = PathNone)
           /\ pc \in {"finally", "idle"} => reply = "too_large"

C4_OversizeDeclaredAndRefused ==
    /\ pc = "downloaded"
    /\ \E j \in 1..Len(log) : /\ log[j].op = "probe"
                             /\ log[j].filesize = 0
                             /\ log[j].approx > MAX_FILE_SIZE
    /\ req.error = Err("too_large", {})

\* C5: a file above MAX_FILE_SIZE that a download left on disk makes the request end
\* with the size-exceeded reply, and is gone once the handler has returned.
C5_OversizeFileRemoved ==
    /\ pc = "finally" =>
         ((\E f \in files : f.dir \in RequestDirs /\ f.size > MAX_FILE_SIZE)
          => reply = "too_large")
    /\ pc = "idle" =>
         ~\E f \in files : f.dir \in RequestDirs /\ f.size > MAX_FILE_SIZE

\* C6: an upload happens only for a request whose download returned a file path and
\* no error, and whose file is on disk with a size of at most MAX_FILE_SIZE.
C6_UploadOnlyAfterChecks ==
    /\ pc = "upload" =>
         /\ req.bound /\ req.error = ErrNone /\ req.filepath # PathNone
         /\ Exists(files, req.filepath)
         /\ SizeOf(files, req.filepath) <= MAX_FILE_SIZE
    /\ \A j \in 1..Len(log) :
         log[j].op = "upload"
         => /\ req.bound /\ req.error = ErrNone /\ req.filepath # PathNone
            /\ log[j].size <= MAX_FILE_SIZE
            /\ j = Len(log)
            /\ \E k \in 1..(j - 1) : log[k].op = "fetch" /\ log[k].ok

C6_Uploaded ==
    /\ pc = "finally"
    /\ \E j \in 1..Len(log) : log[j].op = "upload" /\ log[j].ok
    /\ reply = "success"

\* C7: at the return of every store_url the cache holds at most 100 entries.
C7_CacheAtMostLimit == Len(url_cache) <= CacheLimit

C7_CacheFullAgain == Len(url_cache) = CacheLimit /\ nstores = CacheLimit + CacheKeep + 1

C10_MissingTokenSessionExpired ==
    (req.fmt # "None" /\ req.token \notin Keys(url_cache))
    => /\ get_url(url_cache, req.token) = UrlNone
       /\ req.url = UrlNone
       /\ reply = "session_expired"
       /\ pc = "idle"
       /\ log = <<>>

C10_EvictedTokenExpired ==
    /\ req.fmt # "None"
    /\ req.token >= 1 /\ req.token <= nstores
    /\ req.token \notin Keys(url_cache)
    /\ reply = "session_expired"

C12_AtMostPerMinuteAdmitted ==
    \A i \in 1..Len(admitted) :
        Cardinality({j \in i..Len(admitted) : admitted[j] - admitted[i] <= 60})
            <= PerMinute

\* C13: while a request is inside a blocking probe or transfer, a message of another
\* user can still be taken up by handle_url and run to its reply.
C13_OtherUsersServedWhileBlocked ==
    pc = "blocked" => ENABLED HandleUrl(TokenUrls, {nstores + 1}, nstores + 1)

\* C14: a download call that has entered an external retrieval call eventually
\* returns, so every accepted request eventually ends and its handler returns.
C14_DownloadCallReturns ==
    (pc = "blocked") ~> (pc = "idle")

Uploaded == \E j \in 1..Len(log) : log[j].op = "upload"

\* C15: the file a download returned exists, with its directory, from the return of
\* the download until the upload has completed or failed; it is removed, with its
\* directory, by the cleanup step that follows the upload.
C15_FileKeptUntilCleanup ==
    /\ (pc = "downloaded" /\ req.error = ErrNone /\ req.filepath # PathNone)
       => (Exists(files, req.filepath) /\ req.filepath.dir \in dirs)
    /\ (pc = "upload" \/ (pc = "finally" /\ Uploaded))
       => (Exists(files, req.filepath) /\ req.filepath.dir \in dirs)
    /\ (pc = "idle" /\ Uploaded)
       => /\ ~Exists(files, req.filepath)
          /\ req.filepath.dir \notin dirs
          /\ ~\E f \in files : f.dir = req.filepath.dir

C15_ConvertedAudioAwaitsCleanup ==
    /\ pc = "finally"
    /\ Uploaded
    /\ req.filepath.name = "audio.mp3"
    /\ Exists(files, req.filepath)

\* whether the host of a well-formed URL contains a key of the platform table
HostMatches(u) ==
    ~u.malformed /\ \E i \in 1..Len(supported_platforms) : supported_platforms[i].key \in u.host

\* C16: a malformed URL, or one whose host matches no entry of the platform table, is
\* classified as unsupported and "Unknown"; handle_url stores no handle for it and
\* offers no keyboard, and no download is ever started for such a URL.
C16_ClassificationFailsClosed ==
    [][/\ \A u \in Urls \cup {UrlNone} :
             ~HostMatches(u) => (~is_supported_url(u) /\ get_platform_name(u) = "Unknown")
       /\ (message' # message /\ ~HostMatches(message'))
             => UNCHANGED <<url_cache, nstores, keyboard, pc, req, reply, log, dirs, files,
                            ntemp, nreq>>
       /\ \A i \in 1..Len(url_cache') : HostMatches(url_cache'[i].url)
       /\ keyboard' # KeyboardNone => keyboard'.platform # "Unknown"
       /\ (pc' # "idle" \/ log' # <<>>) => HostMatches(req'.url)]_vars

C16_MalformedMessageIgnored ==
    /\ message.malformed
    /\ url_cache = <<>>
    /\ nstores = 0

\* C17: the cleanup step raises nothing and is idempotent: run a second time, or run
\* after the file, the contents of its directory or the directory itself were removed
\* by someone else, it changes nothing on disk.
C17_ReleaseIdempotent ==
    pc = "finally" =>
        LET once == release(files, dirs, req.filepath, req.bound)
            twice == release(once.files, once.dirs, req.filepath, req.bound)
            nofile == {f \in files : PathOf(f) # req.filepath}
            emptied == {f \in files : f.dir # req.filepath.dir}
            gone == dirs \ {req.filepath.dir}
        IN  /\ ~once.raised
            /\ ~twice.raised /\ twice.files = once.files /\ twice.dirs = once.dirs
            /\ release(nofile, dirs, req.filepath, req.bound)
                  = [files |-> nofile, dirs |-> dirs, raised |-> FALSE]
            /\ release(emptied, dirs, req.filepath, req.bound)
                  = [files |-> emptied, dirs |-> dirs, raised |-> FALSE]
            /\ release(emptied, gone, req.filepath, req.bound)
                  = [files |-> emptied, dirs |-> gone, raised |-> FALSE]

C17_CleanupOfOversizeFile ==
    /\ pc = "finally"
    /\ reply = "too_large"
    /\ Exists(files, req.filepath)
    /\ release(files, dirs, req.filepath, req.bound).files # files

\* what yt-dlp answered under one strategy is a failure: the probe or the setup raised,
\* or the size was accepted and the transfer raised or wrote nothing
StrategyFailed(o) ==
    \/ o.probe \in {"fail", "setup"}
    \/ o.probe = "ok" /\ ~(Declared(o) > MAX_FILE_SIZE) /\ o.fetch \in {"raise", "nofile"}

StrategyRaised(o) == o.probe \in {"fail", "setup"} \/ o.fetch = "raise"

LoopCalls == {j \in 1..Len(log) : log[j].by = "ytdlp" /\ log[j].op \in {"probe", "fetch"}}

\* C19: the loop takes the strategies in list order and each at most once: the calls
\* it makes never go back to an earlier strategy, a strategy is probed at most once
\* and fetched at most once, its probe coming first, and a strategy is taken up only
\* after every strategy before it has failed.
C19_StrategiesInListOrder ==
    ViaStrategyLoop =>
        /\ \A j, k \in LoopCalls : j < k => log[j].i <= log[k].i
        /\ \A j, k \in LoopCalls :
              (log[j].i = log[k].i /\ log[j].op = log[k].op) => j = k
        /\ \A j, k \in LoopCalls :
              (log[j].i = log[k].i /\ j < k) => (log[j].op = "probe" /\ log[k].op = "fetch")
        /\ \A j \in LoopCalls :
              /\ log[j].i \in 1..Len(answers.yd)
              /\ \A s \in 1..(log[j].i - 1) : StrategyFailed(answers.yd[s])

C19_SecondTriedAfterFirstTransferFailed ==
    /\ ViaStrategyLoop
    /\ Len(log) = 5
    /\ log[2].op = "probe" /\ log[2].i = 1
    /\ log[3].op = "fetch" /\ log[3].i = 1 /\ ~log[3].ok
    /\ log[4].op = "probe" /\ log[4].i = 2
    /\ log[5].op = "fetch" /\ log[5].i = 2

ViaYouTubeChain ==
    pc = "downloaded" /\ (InUrl("youtube.com", req.url) \/ InUrl("youtu.be", req.url))

FellBack == \E j \in 1..Len(log) : log[j].by = "fallback"

\* C20: for a YouTube URL, a primary failure classified age-restricted, private,
\* members-only, unavailable or size-exceeded is returned as it is, without the
\* fallback being invoked; the fallback is invoked only after a primary failure that
\* says the platform changed (or names the cipher or the extraction), never after a
\* primary success, and never for a URL that is not routed to YouTube.
C20_FallbackOnlyAfterPlatformChange ==
    /\ FellBack => (InUrl("youtube.com", req.url) \/ InUrl("youtu.be", req.url))
    /\ ViaYouTubeChain =>
         LET primary == error_of_pytubefix(req.url, req.fmt, answers.py)
         IN  /\ primary.msg \in {"yt_unavailable", "age_restricted", "yt_private",
                                 "members_only", "video_unavailable", "video_private",
                                 "too_large"}
                  => (~FellBack /\ req.error = primary /\ req.filepath = PathNone)
             /\ primary = ErrNone => (~FellBack /\ req.error = ErrNone)
             /\ FellBack =>
                  \/ primary.msg = "changed_their_system"
                  \/ /\ primary.msg \in {"audio_download_failed", "video_download_failed"}
                     /\ primary.words \cap {"cipher", "extract"} # {}

C20_AgeRestrictedReturnedWithoutFallback ==
    /\ ViaYouTubeChain
    /\ answers.py.ctor.type = "AgeRestrictedError"
    /\ req.error.msg = "age_restricted"
    /\ ~FellBack

\* strategy k of the loop was taken up: every strategy before it failed
Reached(k) == \A s \in 1..(k - 1) : StrategyFailed(answers.yd[s])

\* C21: an exception of a retrieval library never leaves download_media: the call
\* returns (None, error) for it, or the result of the YouTube fallback; the only
\* exception that reaches the handler is the one of tempfile.mkdtemp.  In the strategy
\* loop an exception the code has no name for moves the loop on to the next strategy
\* when one remains, and is the returned failure when none does.
C21_LibraryExceptionsBecomeResults ==
    pc = "downloaded" =>
        /\ ~req.bound <=> answers.disk # "ok"
        /\ (ViaYouTubeChain /\ answers.disk = "ok"
            /\ (answers.py.ctor # ExcNone \/ answers.py.dl # ExcNone))
           => /\ FellBack \/ (req.filepath = PathNone /\ req.error # ErrNone)
              /\ answers.py.ctor = Exc("Exception", {})
                   => req.error = Err("youtube_error", {})
        /\ (InUrl("instagram.com", req.url) /\ ~ViaYouTubeChain /\ answers.disk = "ok"
            /\ req.url.shortcode /\ answers.ig.post # ExcNone)
           => (req.filepath = PathNone /\ req.error = InstaError(answers.ig.post))
        /\ ViaStrategyLoop =>
             \A k \in 1..Len(answers.yd) :
                 (/\ Reached(k)
                  /\ StrategyRaised(answers.yd[k])
                  /\ ~(answers.yd[k].probe = "ok" /\ Declared(answers.yd[k]) > MAX_FILE_SIZE)
                  /\ answers.yd[k].kind \in UnclassifiedKinds)
                 => IF k < Len(answers.yd)
                    THEN \/ answers.yd[k + 1].probe = "setup"
                         \/ \E j \in 1..Len(log) : /\ log[j].op = "probe"
                                                  /\ log[j].by = "ytdlp"
                                                  /\ log[j].i = k + 1
                    ELSE /\ req.filepath = PathNone
                         /\ req.error.words = {answers.yd[k].kind}

C21_UnclassifiedTransferErrorRetried ==
    /\ ViaStrategyLoop
    /\ Len(answers.yd) = 2
    /\ answers.yd[1].probe = "ok" /\ answers.yd[1].fetch = "raise"
    /\ answers.yd[1].kind \in UnclassifiedKinds
    /\ answers.yd[2].probe = "ok" /\ answers.yd[2].fetch = "file"
    /\ req.error = ErrNone
    /\ req.filepath = Path(ntemp, "media", 2)

\* C22: a run of handle_format_selection calls download_media at most once: the call
\* is entered only by the callback that starts the run, and a send_* call that raises
\* is followed by the cleanup with the generic error reply, the result of the download
\* and the disk left as they were.
C22_UploadFailureNotRetried ==
    [][/\ (pc' = "download" /\ pc # "download") => (pc = "idle" /\ nreq' = nreq + 1)
       /\ (pc' = "downloaded" /\ pc # "downloaded") => pc \in {"download", "blocked"}
       /\ pc = "upload"
            => /\ pc' = "finally"
               /\ req' = req /\ req.error = ErrNone
               /\ UNCHANGED <<ntemp, dirs, files>>
               /\ Len(log') = Len(log) + 1 /\ log'[Len(log')].op = "upload"
               /\ ~log'[Len(log')].ok => reply' = "an_error_occurred"
       /\ pc = "finally" => pc' = "idle"
       /\ Cardinality({j \in 1..Len(log') : log'[j].op = "mkdtemp"}) <= 2]_vars

C22_UploadRaised ==
    /\ pc = "finally"
    /\ Len(log) > 0 /\ log[Len(log)].op = "upload" /\ ~log[Len(log)].ok
    /\ reply = "an_error_occurred"
    /\ req.error = ErrNone

\* the YouTube audio path reached the transcoder
YouTubeTranscoded ==
    /\ ViaYouTubeChain
    /\ req.fmt = "audio"
    /\ ~FellBack
    /\ \E j \in 1..Len(log) : log[j].op = "transcode"

Workspace(d) == {PathOf(f) : f \in {g \in files : g.dir = d}}

\* C23 as stated: in the YouTube audio path a call that reached ffmpeg returns success:
\* the converted file when the conversion succeeded, the downloaded container when
\* ffmpeg is missing, timed out or exited non-zero; the returned file is the only file
\* in the workspace.
C23_ExactlyOneFileLeft ==
    YouTubeTranscoded
    => /\ req.error = ErrNone
       /\ req.filepath.name = IF answers.py.ffmpeg = "ok" /\ answers.py.mp3 # 0
                              THEN "audio.mp3" ELSE "audio.mp4"
       /\ Workspace(req.filepath.dir) = {req.filepath}

\* C23 amended: in the YouTube audio path a call that reached ffmpeg returns success
\* with a file that exists: the converted file, the original container removed, when
\* ffmpeg exited with 0 and left its output; the original container otherwise, beside
\* which the output of a conversion that timed out or exited non-zero may remain.
C23_TranscoderFailureReturnsOriginal ==
    YouTubeTranscoded
    => LET e == answers.py
           d == req.filepath.dir
           converted == e.ffmpeg = "ok" /\ e.mp3 # 0
       IN  /\ req.error = ErrNone
           /\ Exists(files, req.filepath)
           /\ req.filepath.name = IF converted THEN "audio.mp3" ELSE "audio.mp4"
           /\ converted => Workspace(d) = {req.filepath}
           /\ ~converted =>
                Workspace(d) = {req.filepath}
                               \cup (IF e.ffmpeg \in {"failed", "timeout"} /\ e.mp3 # 0
                                     THEN {Path(d, "audio.mp3", 0)} ELSE {})

C23_TimedOutConversionLeftOutput ==
    /\ YouTubeTranscoded
    /\ answers.py.ffmpeg = "timeout"
    /\ req.filepath.name = "audio.mp4"
    /\ Cardinality(Workspace(req.filepath.dir)) = 2

\* C24: a call of download_media that returns has created exactly one directory under
\* DOWNLOAD_DIR, also when the YouTube fallback ran, and a file path it returns lies
\* inside that directory.
C24_OneWorkspacePerCall ==
    (pc = "downloaded" /\ req.bound)
    => /\ Cardinality(RequestDirs) = 1
       /\ req.filepath # PathNone => req.filepath.dir \in RequestDirs

DeclaredOver == \E j \in 1..Len(log) : log[j].op = "probe" /\ Declared(log[j]) > MAX_FILE_SIZE

DiskOver(by) ==
    \E j \in 1..Len(log) : /\ log[j].op = "fetch" /\ log[j].by = by
                          /\ log[j].ok /\ log[j].size > MAX_FILE_SIZE

\* C25: every size test is bytes > MAX_FILE_SIZE: a download returns the size-exceeded
\* failure exactly when a probe declared more than the ceiling or, for Instagram, the
\* file on disk is larger than the ceiling; the handler refuses a returned file exactly
\* when it is larger than the ceiling.  A size equal to the ceiling is accepted, one
\* byte more is refused, and a declared size of zero or none refuses nothing.
C25_SameCeilingEverywhere ==
    /\ \A s \in DeclaredSizes \cup DiskSizes :
          /\ PyTooLarge(s) <=> s > MAX_FILE_SIZE
          /\ YtTooLarge(s, 0) <=> s > MAX_FILE_SIZE
          /\ YtTooLarge(0, s) <=> s > MAX_FILE_SIZE
          /\ HandlerTooLarge(s) <=> s > MAX_FILE_SIZE
    /\ (pc = "downloaded" /\ req.bound)
       => (req.error.msg = "too_large" <=> (DeclaredOver \/ DiskOver("instaloader")))
    /\ pc = "upload" => SizeOf(files, req.filepath) <= MAX_FILE_SIZE
    /\ (pc = "finally" /\ req.bound /\ req.error = ErrNone /\ Exists(files, req.filepath))
       => /\ Uploaded <=> SizeOf(files, req.filepath) <= MAX_FILE_SIZE
          /\ ~Uploaded => reply = "too_large"

C25_FileAtCeilingUploaded ==
    /\ pc = "finally"
    /\ Uploaded
    /\ SizeOf(files, req.filepath) = MAX_FILE_SIZE
    /\ \E j \in 1..Len(log) : log[j].op = "probe" /\ Declared(log[j]) = MAX_FILE_SIZE

\* C26: no download changes an attribute of the shared bot object other than the
\* handle cache: the configuration of the shared Instagram loader stays as __init__
\* set it, so that no request's workspace is readable from it.
C26_SharedLoaderUntouched ==
    /\ dirname_pattern = 0
    /\ dirname_pattern \notin RequestDirs

\* C27: store_url takes effect at once for every other handler: from its first
\* statement to its return no handler is started or resumed, so that get_url is only
\* ever called on a cache of at most 100 entries that is not in the middle of an
\* eviction, and at its return the cache is what the insert and the whole eviction
\* pass make of the cache the call found.
C27_StoreUrlAtomic ==
    [][/\ nreq' = nreq + 1 => (storing.at = "none" /\ Len(url_cache) <= CacheLimit)
       /\ storing.at # "none"
            => UNCHANGED <<pc, req, nreq, reply, log, dirs, files, ntemp, answers>>
               \/ (storing'.at = "none" /\ UNCHANGED <<pc, nreq, dirs, files, ntemp>>)
       /\ (storing.at # "none" /\ storing'.at = "none")
            => url_cache' = store_url(storing.before, storing.token, storing.url)
       /\ storing'.at = "none" => Len(url_cache') <= CacheLimit]_vars

C27_SelectionAfterEviction ==
    /\ storing.at = "none"
    /\ nstores = CacheLimit + 1
    /\ Len(url_cache) = CacheKeep
    /\ nreq = 1
    /\ req.token = url_cache[1].token
    /\ req.url # UrlNone

\* C28: a path download_media returns names a file that exists, and once
\* handle_format_selection has returned neither that file nor its directory, nor
\* anything in it, exists: after an upload that succeeded, after one that raised, and
\* after the handler refused the file for its size.
C28_ReturnedFileAndDirectoryRemoved ==
    /\ (pc = "downloaded" /\ req.filepath # PathNone)
       => (req.bound /\ Exists(files, req.filepath) /\ req.filepath.dir \in dirs)
    /\ (pc = "finally" /\ req.filepath # PathNone)
       => /\ Exists(files, req.filepath)
          /\ reply \in {"success", "an_error_occurred", "too_large"}
    /\ (pc = "idle" /\ req.filepath # PathNone)
       => /\ ~Exists(files, req.filepath)
          /\ req.filepath.dir \notin dirs
          /\ Workspace(req.filepath.dir) = {}

C28_RefusedFileRemoved ==
    /\ pc = "idle"
    /\ req.filepath # PathNone
    /\ reply = "too_large"
    /\ ~Uploaded
    /\ req.filepath.dir \notin dirs

\* the keyboard and the downloader that belong to a platform name
PlatformKeyboard(name) ==
    CASE name = "SoundCloud" -> "audio_only"
      [] name = "YouTube" -> "youtube"
      [] name = "Instagram" -> "instagram"
      [] OTHER -> "standard"

PlatformDownloader(name) ==
    CASE name = "YouTube" -> "pytubefix"
      [] name = "Instagram" -> "instaloader"
      [] OTHER -> "ytdlp"

\* C29: for every URL handle_url accepts, the keyboard it offers and the downloader
\* download_media starts with are those of the platform get_platform_name returns for
\* that URL.
C29_RoutingAgreesWithClassification ==
    /\ keyboard # KeyboardNone
       => /\ keyboard.platform = get_platform_name(get_url(url_cache, keyboard.token))
          /\ keyboard.kind = PlatformKeyboard(keyboard.platform)
    /\ (pc = "downloaded" /\ req.bound)
       => /\ req.platform = get_platform_name(req.url)
          /\ log[1].op = "mkdtemp"
          /\ log[1].by = PlatformDownloader(req.platform)

\* C30: a call of download_media that returns, returns a file path and no error or an
\* error and no file path, never neither and never both; so does the primary YouTube
\* method whose result the fallback replaces.
C30_OutcomeWellFormed ==
    (pc = "downloaded" /\ req.bound)
    => /\ (req.filepath = PathNone) <=> (req.error # ErrNone)
       /\ req.error # ErrNone => req.error.msg # "None"
       /\ ViaYouTubeChain
            => LET r == download_youtube_with_pytubefix(Ctx({}, {}, 0, <<>>, 0), req.url,
                                                        req.fmt, answers.py)
               IN  (r.filepath = PathNone) <=> (r.error # ErrNone)

C30_LoopFellThrough ==
    /\ pc = "downloaded"
    /\ req.bound
    /\ req.error.msg = "all_strategies_failed"
    /\ req.filepath = PathNone

\* the tokens a digest can come out as on a cache: one it does not hold, or the oldest,
\* the newest or a middle one of those it holds
RoundTripTokens(cache) ==
    {nstores + 1}
    \cup (IF cache = <<>> THEN {}
          ELSE {cache[1].token, cache[Len(cache)].token, cache[(Len(cache) + 1) \div 2].token})

\* C31: on every cache the program can hold when a message arrives, store_url of a URL
\* under a token, new or already held, leaves a cache in which get_url of that token is
\* that URL: the entry is not among those its own eviction pass deletes; and after every
\* handle_url that stored a URL, get_url of the token it put on the keyboard is the URL
\* of the message.
C31_ImmediateRoundTrip ==
    /\ pc = "idle" => \A t \in RoundTripTokens(url_cache) :
          LET u == Tweet(nstores + 1)
              c == store_url(url_cache, t, u)
          IN  /\ t \in Keys(c)
              /\ get_url(c, t) = u
              /\ Len(url_cache) = CacheLimit /\ t \notin Keys(url_cache)
                   => (Len(c) = CacheKeep /\ c[Len(c)] = [token |-> t, url |-> u])
    /\ (keyboard # KeyboardNone /\ is_supported_url(message))
       => get_url(url_cache, keyboard.token) = message

C31_StoredByEvictingInsert ==
    /\ nstores = CacheLimit + 1
    /\ Len(url_cache) = CacheKeep
    /\ keyboard.token = nstores
    /\ get_url(url_cache, keyboard.token) = message
    /\ message = Tweet(CacheLimit + 1)

\* C32: every URL url_cache holds satisfies is_supported_url, and so does every URL
\* handle_format_selection got from get_url and gave to download_media: store_url is
\* called from handle_url alone, after its support check.
C32_OnlySupportedUrlsCached ==
    /\ \A i \in 1..Len(url_cache) : is_supported_url(url_cache[i].url)
    /\ req.url # UrlNone => is_supported_url(req.url)

C32_CachedUrlGivenToDownload ==
    /\ pc = "download"
    /\ nstores = 1
    /\ url_cache = <<[token |-> req.token, url |-> req.url]>>
    /\ is_supported_url(req.url)

====
